---- MODULE Spec2Model ----
(***************************************************************************)
(* Model of the browser-automation demo: the task runner                   *)
(* (browser_automation/runner.py), the configuration loader and validator  *)
(* (browser_automation/config.py), the login task (tasks/login_task.py),   *)
(* the browser and agent factories, and the script entry point (task.py).  *)
(*                                                                         *)
(* Python values are modelled as records of strings so that values of      *)
(* different Python types stay comparable: a value carries its type name   *)
(* and its repr, an exception its class, its message, whether it derives   *)
(* from Exception, and the call that raised it (its identity).             *)
(***************************************************************************)
EXTENDS Integers, Sequences, FiniteSets, TLC

VARIABLES
    pc,            \* position of the TaskRunner.run coroutine
    callArg,       \* the max_steps argument as the caller gave it
    maxSteps,      \* the max_steps parameter after default binding
    pending,       \* what the try/except part left to do after finally
    outcome,       \* what TaskRunner.run did to its caller
    agentOutcome,  \* what agent.run did
    closeOutcome,  \* what browser_context.close did
    trace,         \* calls to the collaborators and the logger, in order
    cfgPc,         \* position of the caller of ConfigValidator.validate
    config,        \* the AppConfig object
    config0,       \* the AppConfig as it was constructed
    validation,    \* what validate did to its caller
    mpc,           \* position of main() in task.py
    env,           \* the process environment
    args,          \* what parse_arguments returned
    created,       \* the collaborators constructed by create_agent, in order
    exitCode,      \* the exit status of the process, -1 while it runs
    task,          \* the LoginTask object: url, username, password
    task0,         \* the LoginTask as it was constructed
    rendered,      \* what the calls of get_instructions returned, in order
    names,         \* what the reads of name returned, in order
    fpc,           \* position of the caller of the factories
    browser,       \* the BrowserConfig given to the Browser constructed
    contexts,      \* the BrowserContext objects constructed, in order
    agentArgs,     \* the arguments of AgentFactory.create_agent
    agent          \* the keyword arguments given to the Agent constructed

runnerVars == <<pc, callArg, maxSteps, pending, outcome, agentOutcome,
                closeOutcome, trace>>

configVars == <<cfgPc, config, config0, validation>>

mainVars == <<mpc, env, args, created, exitCode>>

taskVars == <<task, task0, rendered, names>>

factoryVars == <<fpc, browser, contexts, agentArgs, agent>>

vars == <<runnerVars, configVars, mainVars, taskVars, factoryVars>>

----------------------------------------------------------------------------
(* Bounds and program constants *)

MaxStepsBound == 2

DefaultMaxSteps == 25

LargeMaxSteps == 1000

----------------------------------------------------------------------------
(* Python values and exceptions *)

PyValue(t, v) == [t |-> t, v |-> v]

NoValue == PyValue("", "")

PyNone == PyValue("NoneType", "None")

\* The results an agent may return: the falsy ones, a string, nested data.
AgentResults ==
    { PyNone,
      PyValue("int", "0"),
      PyValue("bool", "False"),
      PyValue("str", ""),
      PyValue("str", "ok"),
      PyValue("list", "[]"),
      PyValue("dict", "{'status': 'completed', 'actions': ['navigate', {}]}") }

PyExc(cls, msg, isExc, origin) ==
    [cls |-> cls, msg |-> msg, isException |-> isExc, origin |-> origin]

NoExc == PyExc("", "", FALSE, "")

\* Exceptions agent.run may raise that derive from Exception.  One has the
\* class and message of a close failure: only its identity tells them apart.
AgentErrors ==
    { PyExc("RuntimeError", "boom", TRUE, "agent.run"),
      PyExc("ValueError", "Invalid input", TRUE, "agent.run"),
      PyExc("Exception", "Close failed", TRUE, "agent.run") }

\* Terminations of agent.run that derive from BaseException only.
AgentSignals ==
    { PyExc("CancelledError", "", FALSE, "agent.run"),
      PyExc("KeyboardInterrupt", "", FALSE, "agent.run"),
      PyExc("SystemExit", "1", FALSE, "agent.run") }

CloseErrors ==
    { PyExc("Exception", "Close failed", TRUE, "close"),
      PyExc("CancelledError", "", FALSE, "close") }

\* How a call ended: it returned a value or raised exc; context is the
\* exception that was being handled when exc was raised (__context__).
Returned(v) == [kind |-> "return", value |-> v, exc |-> NoExc, context |-> NoExc]

Raised(e, ctx) == [kind |-> "raise", value |-> NoValue, exc |-> e, context |-> ctx]

NotYet == [kind |-> "none", value |-> NoValue, exc |-> NoExc, context |-> NoExc]

----------------------------------------------------------------------------
(* The trace of observable calls *)

LogEvent(level, text) == [ev |-> "log", level |-> level, text |-> text, n |-> -1]

AgentRunEvent(n) == [ev |-> "agent.run", level |-> "", text |-> <<>>, n |-> n]

CloseEvent == [ev |-> "close", level |-> "", text |-> <<>>, n |-> -1]

Positions(tr, ev) == { i \in DOMAIN tr : tr[i].ev = ev }

Count(tr, ev) == Cardinality(Positions(tr, ev))

ErrorLogs(tr) == { i \in DOMAIN tr : tr[i].ev = "log" /\ tr[i].level = "error" }

\* str(e) of an exception is its message.
ErrorLogText(e) == <<"Error during navigation: ", e.msg>>

----------------------------------------------------------------------------
(* TaskRunner.run *)

Supplied(n) == [supplied |-> TRUE, value |-> n]

NotSupplied == [supplied |-> FALSE, value |-> -1]

MaxStepsArgs ==
    { Supplied(n) : n \in (0..MaxStepsBound) \cup {DefaultMaxSteps, LargeMaxSteps} }
        \cup {NotSupplied}

\* Mutant: the default bound with "max_steps or 25", which also replaces 0.
BindMaxStepsFalsy(arg) ==
    IF arg.supplied /\ arg.value # 0 THEN arg.value ELSE DefaultMaxSteps

\* Parameter binding of max_steps: int = 25.
BindMaxSteps(arg) == IF arg.supplied THEN arg.value ELSE DefaultMaxSteps

\* The finally clause up to its await: the log line and the call of close.
FinallyUntilClose(tr) ==
    Append(Append(tr, LogEvent("info", <<"Closing browser...">>)), CloseEvent)

\* Mutant: the session is closed as soon as the run starts, before the
\* agent is awaited.
RunnerStartClosesFirst(arg) ==
    /\ pc = "init"
    /\ callArg' = arg
    /\ maxSteps' = BindMaxSteps(arg)
    /\ trace' = Append(Append(Append(trace,
                    LogEvent("info", <<"Starting agent navigation task...">>)),
                    CloseEvent),
                    AgentRunEvent(BindMaxSteps(arg)))
    /\ pc' = "awaitAgent"
    /\ UNCHANGED <<pending, outcome, agentOutcome, closeOutcome>>
    /\ UNCHANGED <<configVars, mainVars>>
    /\ UNCHANGED <<taskVars, factoryVars>>

\* The call of TaskRunner.run up to the await of agent.run.
RunnerStart(arg) ==
    /\ pc = "init"
    /\ callArg' = arg
    /\ maxSteps' = BindMaxSteps(arg)
    /\ trace' = Append(Append(trace,
                    LogEvent("info", <<"Starting agent navigation task...">>)),
                    AgentRunEvent(BindMaxSteps(arg)))
    /\ pc' = "awaitAgent"
    /\ UNCHANGED <<pending, outcome, agentOutcome, closeOutcome>>
    /\ UNCHANGED <<configVars, mainVars>>
    /\ UNCHANGED <<taskVars, factoryVars>>

\* Mutant: the try body ends without "return result".
RunnerAgentReturnsDropsResult(v) ==
    /\ pc = "awaitAgent"
    /\ agentOutcome' = Returned(v)
    /\ pending' = Returned(PyNone)
    /\ trace' = FinallyUntilClose(Append(trace,
                    LogEvent("info", <<"Navigation task completed successfully!">>)))
    /\ pc' = "awaitClose"
    /\ UNCHANGED <<callArg, maxSteps, outcome, closeOutcome>>
    /\ UNCHANGED <<configVars, mainVars>>
    /\ UNCHANGED <<taskVars, factoryVars>>

\* agent.run returned v: the rest of the try body, then finally up to the
\* await of close.
RunnerAgentReturns(v) ==
    /\ pc = "awaitAgent"
    /\ agentOutcome' = Returned(v)
    /\ pending' = Returned(v)
    /\ trace' = FinallyUntilClose(Append(trace,
                    LogEvent("info", <<"Navigation task completed successfully!">>)))
    /\ pc' = "awaitClose"
    /\ UNCHANGED <<callArg, maxSteps, outcome, closeOutcome>>
    /\ UNCHANGED <<configVars, mainVars>>
    /\ UNCHANGED <<taskVars, factoryVars>>

\* Mutant: the except clause logs the error and does not re-raise it.
RunnerAgentRaisesSwallows(e) ==
    /\ pc = "awaitAgent"
    /\ agentOutcome' = Raised(e, NoExc)
    /\ pending' = IF e.isException THEN Returned(PyNone) ELSE Raised(e, NoExc)
    /\ trace' = FinallyUntilClose(
                    IF e.isException
                    THEN Append(trace, LogEvent("error", ErrorLogText(e)))
                    ELSE trace)
    /\ pc' = "awaitClose"
    /\ UNCHANGED <<callArg, maxSteps, outcome, closeOutcome>>
    /\ UNCHANGED <<configVars, mainVars>>
    /\ UNCHANGED <<taskVars, factoryVars>>

\* Mutant: a failed agent.run is attempted once more before the error
\* is re-raised.
RunnerAgentRaisesRetries(e) ==
    /\ pc = "awaitAgent"
    /\ agentOutcome' = Raised(e, NoExc)
    /\ pending' = Raised(e, NoExc)
    /\ trace' = FinallyUntilClose(
                    IF e.isException
                    THEN Append(Append(trace, LogEvent("error", ErrorLogText(e))),
                                AgentRunEvent(maxSteps))
                    ELSE trace)
    /\ pc' = "awaitClose"
    /\ UNCHANGED <<callArg, maxSteps, outcome, closeOutcome>>
    /\ UNCHANGED <<configVars, mainVars>>
    /\ UNCHANGED <<taskVars, factoryVars>>

\* Mutant: the error is logged in the finally clause, after the call of
\* close.
RunnerAgentRaisesLogsAfterClose(e) ==
    /\ pc = "awaitAgent"
    /\ agentOutcome' = Raised(e, NoExc)
    /\ pending' = Raised(e, NoExc)
    /\ trace' = IF e.isException
                 THEN Append(FinallyUntilClose(trace), LogEvent("error", ErrorLogText(e)))
                 ELSE FinallyUntilClose(trace)
    /\ pc' = "awaitClose"
    /\ UNCHANGED <<callArg, maxSteps, outcome, closeOutcome>>
    /\ UNCHANGED <<configVars, mainVars>>
    /\ UNCHANGED <<taskVars, factoryVars>>

\* Mutant: the handler takes BaseException, so it logs a signal too.
RunnerAgentRaisesCatchesAll(e) ==
    /\ pc = "awaitAgent"
    /\ agentOutcome' = Raised(e, NoExc)
    /\ pending' = Raised(e, NoExc)
    /\ trace' = FinallyUntilClose(Append(trace, LogEvent("error", ErrorLogText(e))))
    /\ pc' = "awaitClose"
    /\ UNCHANGED <<callArg, maxSteps, outcome, closeOutcome>>
    /\ UNCHANGED <<configVars, mainVars>>
    /\ UNCHANGED <<taskVars, factoryVars>>

\* agent.run raised e: the except clause when e derives from Exception (log
\* the error, re-raise), then finally up to the await of close.
RunnerAgentRaises(e) ==
    /\ pc = "awaitAgent"
    /\ agentOutcome' = Raised(e, NoExc)
    /\ pending' = Raised(e, NoExc)
    /\ trace' = FinallyUntilClose(
                    IF e.isException
                    THEN Append(trace, LogEvent("error", ErrorLogText(e)))
                    ELSE trace)
    /\ pc' = "awaitClose"
    /\ UNCHANGED <<callArg, maxSteps, outcome, closeOutcome>>
    /\ UNCHANGED <<configVars, mainVars>>
    /\ UNCHANGED <<taskVars, factoryVars>>

\* close returned: the last log line, then the pending return or raise.
RunnerCloseReturns ==
    /\ pc = "awaitClose"
    /\ closeOutcome' = Returned(PyNone)
    /\ trace' = Append(trace, LogEvent("info", <<"Browser closed successfully">>))
    /\ outcome' = pending
    /\ pc' = "done"
    /\ UNCHANGED <<callArg, maxSteps, pending, agentOutcome>>
    /\ UNCHANGED <<configVars, mainVars>>
    /\ UNCHANGED <<taskVars, factoryVars>>

\* Mutant: a failed close is attempted a second time before c propagates.
RunnerCloseRaisesRetries(c) ==
    /\ pc = "awaitClose"
    /\ closeOutcome' = Raised(c, NoExc)
    /\ outcome' = Raised(c, pending.exc)
    /\ trace' = Append(trace, CloseEvent)
    /\ pc' = "done"
    /\ UNCHANGED <<callArg, maxSteps, pending, agentOutcome>>
    /\ UNCHANGED <<configVars, mainVars>>
    /\ UNCHANGED <<taskVars, factoryVars>>

\* Mutant: the close call is guarded and its failure discarded.
RunnerCloseRaisesSuppressed(c) ==
    /\ pc = "awaitClose"
    /\ closeOutcome' = Raised(c, NoExc)
    /\ outcome' = pending
    /\ pc' = "done"
    /\ UNCHANGED <<callArg, maxSteps, pending, agentOutcome, trace>>
    /\ UNCHANGED <<configVars, mainVars>>
    /\ UNCHANGED <<taskVars, factoryVars>>

\* Mutant: a close failure does not replace an execution error in flight.
RunnerCloseRaisesKeepsExecutionError(c) ==
    /\ pc = "awaitClose"
    /\ closeOutcome' = Raised(c, NoExc)
    /\ outcome' = IF pending.kind = "raise" THEN pending ELSE Raised(c, NoExc)
    /\ pc' = "done"
    /\ UNCHANGED <<callArg, maxSteps, pending, agentOutcome, trace>>
    /\ UNCHANGED <<configVars, mainVars>>
    /\ UNCHANGED <<taskVars, factoryVars>>

\* close raised c inside finally: c propagates in place of the pending
\* return or raise; a pending exception becomes its context.
RunnerCloseRaises(c) ==
    /\ pc = "awaitClose"
    /\ closeOutcome' = Raised(c, NoExc)
    /\ outcome' = Raised(c, pending.exc)
    /\ pc' = "done"
    /\ UNCHANGED <<callArg, maxSteps, pending, agentOutcome, trace>>
    /\ UNCHANGED <<configVars, mainVars>>
    /\ UNCHANGED <<taskVars, factoryVars>>

RunnerNext ==
    \/ \E arg \in MaxStepsArgs : RunnerStart(arg)
    \/ \E v \in AgentResults : RunnerAgentReturns(v)
    \/ \E e \in AgentErrors \cup AgentSignals : RunnerAgentRaises(e)
    \/ RunnerCloseReturns
    \/ \E c \in CloseErrors : RunnerCloseRaises(c)


----------------------------------------------------------------------------
(* AppConfig and ConfigValidator.validate (browser_automation/config.py) *)

\* Optional[str] and Optional[SecretStr]: None, or a wrapped string.
None == [present |-> FALSE, value |-> ""]

Some(v) == [present |-> TRUE, value |-> v]

SecretStr(v) == Some(v)

\* Truth value of an Optional[SecretStr]: None is falsy, and a SecretStr
\* has the length of its secret, so an empty one is falsy too.
Truthy(opt) == opt.present /\ opt.value # ""

AppConfig(key, path, url, user, pass, headless, model) ==
    [openai_api_key |-> key, chromium_path |-> path, base_url |-> url,
     auth_username |-> user, auth_password |-> pass,
     headless |-> headless, model |-> model]

DefaultChromiumPath == "/Applications/Chromium.app/Contents/MacOS/Chromium"

DefaultModel == "gpt-4o-mini"

SecretChoices(v) == {None, SecretStr(""), SecretStr(v)}

\* The configurations validate is applied to.
AppConfigs ==
    { AppConfig(k, p, u, n, w, h, m) :
        k \in SecretChoices("test-key"),
        p \in {"", "/path/to/chromium"},
        u \in {"", "https://x.test/login"},
        n \in SecretChoices("alice"),
        w \in SecretChoices("p@ss"),
        h \in BOOLEAN,
        m \in {DefaultModel, "gpt-4o"} }

\* Strings that are searched are sequences of pieces; a needle is contained
\* when it occurs as a contiguous run of pieces.
Contains(hay, needle) ==
    \E i \in 1..(Len(hay) - Len(needle) + 1) :
        SubSeq(hay, i, i + Len(needle) - 1) = needle

RequiredError(name) == <<name, " environment variable is required">>

RECURSIVE JoinLines(_)
\* "\n".join(f"  - {error}" for error in errors)
JoinLines(errors) ==
    IF errors = <<>> THEN <<>>
    ELSE IF Len(errors) = 1 THEN <<"  - ">> \o Head(errors)
    ELSE <<"  - ">> \o Head(errors) \o <<"\n">> \o JoinLines(Tail(errors))

ErrorMessage(errors) == <<"Configuration errors:\n">> \o JoinLines(errors)

\* Mutant: validation raises at the first missing field.
ValidateErrorsFirstOnly(c) ==
    IF ~Truthy(c.openai_api_key) THEN <<RequiredError("OPENAI_API_KEY")>>
    ELSE IF c.base_url = "" THEN <<RequiredError("BASE_URL")>>
    ELSE IF ~Truthy(c.auth_username) THEN <<RequiredError("AUTH_USERNAME")>>
    ELSE IF ~Truthy(c.auth_password) THEN <<RequiredError("AUTH_PASSWORD")>>
    ELSE <<>>

\* Mutant: the secrets are tested with "is None", so an empty one passes.
ValidateErrorsNoneTest(c) ==
    (IF ~c.openai_api_key.present THEN <<RequiredError("OPENAI_API_KEY")>> ELSE <<>>)
    \o (IF c.base_url = "" THEN <<RequiredError("BASE_URL")>> ELSE <<>>)
    \o (IF ~c.auth_username.present THEN <<RequiredError("AUTH_USERNAME")>> ELSE <<>>)
    \o (IF ~c.auth_password.present THEN <<RequiredError("AUTH_PASSWORD")>> ELSE <<>>)

\* Mutant: the browser path is required as well.
ValidateErrorsPathRequired(c) ==
    (IF ~Truthy(c.openai_api_key) THEN <<RequiredError("OPENAI_API_KEY")>> ELSE <<>>)
    \o (IF c.base_url = "" THEN <<RequiredError("BASE_URL")>> ELSE <<>>)
    \o (IF ~Truthy(c.auth_username) THEN <<RequiredError("AUTH_USERNAME")>> ELSE <<>>)
    \o (IF ~Truthy(c.auth_password) THEN <<RequiredError("AUTH_PASSWORD")>> ELSE <<>>)
    \o (IF c.chromium_path = "" THEN <<RequiredError("CHROMIUM_PATH")>> ELSE <<>>)

\* The errors list of validate after its four tests.
ValidateErrors(c) ==
    (IF ~Truthy(c.openai_api_key) THEN <<RequiredError("OPENAI_API_KEY")>> ELSE <<>>)
    \o (IF c.base_url = "" THEN <<RequiredError("BASE_URL")>> ELSE <<>>)
    \o (IF ~Truthy(c.auth_username) THEN <<RequiredError("AUTH_USERNAME")>> ELSE <<>>)
    \o (IF ~Truthy(c.auth_password) THEN <<RequiredError("AUTH_PASSWORD")>> ELSE <<>>)

\* What a validation did: it returned None, or raised cls(message).
ValidationPassed == [kind |-> "return", cls |-> "", message |-> <<>>]

ValidationRaised(cls, message) == [kind |-> "raise", cls |-> cls, message |-> message]

NotValidated == [kind |-> "none", cls |-> "", message |-> <<>>]

\* ConfigValidator.validate(config) as its caller sees it.
ValidateOutcome(c) ==
    IF ValidateErrors(c) # <<>>
    THEN ValidationRaised("ValueError", ErrorMessage(ValidateErrors(c)))
    ELSE ValidationPassed

\* A call of ConfigValidator.validate on the configuration.
Validate ==
    /\ cfgPc = "built"
    /\ validation' = ValidateOutcome(config)
    /\ cfgPc' = "validated"
    /\ UNCHANGED <<config, config0>>
    /\ UNCHANGED <<runnerVars, mainVars>>
    /\ UNCHANGED <<taskVars, factoryVars>>

ConfigInit ==
    /\ cfgPc = "built"
    /\ config \in AppConfigs
    /\ config0 = config
    /\ validation = NotValidated

ConfigNext == Validate

----------------------------------------------------------------------------
(* The script task.py: module-level configuration, create_agent, navigate, main *)

EnvNames == {"OPENAI_API_KEY", "CHROMIUM_PATH", "BASE_URL", "AUTH_USERNAME", "AUTH_PASSWORD"}

\* A variable is unset, set to the empty string, or set to a value.
EnvChoices(v) == {None, Some(""), Some(v)}

Envs ==
    [OPENAI_API_KEY : EnvChoices("sk-test"),
     CHROMIUM_PATH : EnvChoices("/usr/bin/chromium"),
     BASE_URL : EnvChoices("https://x.test/login"),
     AUTH_USERNAME : EnvChoices("alice"),
     AUTH_PASSWORD : EnvChoices("p@ss")]

\* os.getenv(name, default)
GetEnv(e, name, default) == IF e[name].present THEN e[name].value ELSE default

\* The module-level config object: a secret is wrapped whenever its
\* variable is set.
LegacyConfig(e) ==
    AppConfig(
        IF e.OPENAI_API_KEY.present THEN SecretStr(e.OPENAI_API_KEY.value) ELSE None,
        GetEnv(e, "CHROMIUM_PATH", DefaultChromiumPath),
        GetEnv(e, "BASE_URL", ""),
        IF e.AUTH_USERNAME.present THEN SecretStr(e.AUTH_USERNAME.value) ELSE None,
        IF e.AUTH_PASSWORD.present THEN SecretStr(e.AUTH_PASSWORD.value) ELSE None,
        FALSE,
        DefaultModel)

\* Mutant: validate_config lacks the test of the password.
LegacyValidateErrorsNoPassword(c) ==
    (IF ~Truthy(c.openai_api_key) THEN <<RequiredError("OPENAI_API_KEY")>> ELSE <<>>)
    \o (IF c.base_url = "" THEN <<RequiredError("BASE_URL")>> ELSE <<>>)
    \o (IF ~Truthy(c.auth_username) THEN <<RequiredError("AUTH_USERNAME")>> ELSE <<>>)

\* Mutant: validate_config tests the secrets with "is None", so a secret
\* wrapping the empty string passes.
LegacyValidateErrorsNoneTest(c) ==
    (IF ~c.openai_api_key.present THEN <<RequiredError("OPENAI_API_KEY")>> ELSE <<>>)
    \o (IF c.base_url = "" THEN <<RequiredError("BASE_URL")>> ELSE <<>>)
    \o (IF ~c.auth_username.present THEN <<RequiredError("AUTH_USERNAME")>> ELSE <<>>)
    \o (IF ~c.auth_password.present THEN <<RequiredError("AUTH_PASSWORD")>> ELSE <<>>)

\* validate_config of task.py: the errors list after its four tests.
LegacyValidateErrors(c) ==
    (IF ~Truthy(c.openai_api_key) THEN <<RequiredError("OPENAI_API_KEY")>> ELSE <<>>)
    \o (IF c.base_url = "" THEN <<RequiredError("BASE_URL")>> ELSE <<>>)
    \o (IF ~Truthy(c.auth_username) THEN <<RequiredError("AUTH_USERNAME")>> ELSE <<>>)
    \o (IF ~Truthy(c.auth_password) THEN <<RequiredError("AUTH_PASSWORD")>> ELSE <<>>)

LegacyValidateOutcome(c) ==
    IF LegacyValidateErrors(c) # <<>>
    THEN ValidationRaised("ValueError", ErrorMessage(LegacyValidateErrors(c)))
    ELSE ValidationPassed

\* What parse_arguments does: it returns a namespace, or argparse ends the
\* process (--help, or a command line it rejects) by raising SystemExit.
Namespace(headless, url, model) ==
    [status |-> "ok", headless |-> headless, url |-> url, model |-> model]

HelpRequested == [status |-> "help", headless |-> FALSE, url |-> None, model |-> None]

UsageError == [status |-> "usage", headless |-> FALSE, url |-> None, model |-> None]

NotParsed == [status |-> "none", headless |-> FALSE, url |-> None, model |-> None]

ParseResults ==
    { Namespace(h, u, m) :
        h \in BOOLEAN,
        u \in {None, Some(""), Some("https://cli.test/login")},
        m \in {None, Some(""), Some("gpt-4o")} }
      \cup {HelpRequested, UsageError}

\* Mutant: --url and --model are tested with "is not None", so an empty
\* value is assigned too.
ApplyOverridesNoneTest(c, a) ==
    [c EXCEPT !.headless = IF a.headless THEN TRUE ELSE @,
              !.base_url = IF a.url.present THEN a.url.value ELSE @,
              !.model = IF a.model.present THEN a.model.value ELSE @]

\* The three "if args.x:" assignments of main.
ApplyOverrides(c, a) ==
    [c EXCEPT !.headless = IF a.headless THEN TRUE ELSE @,
              !.base_url = IF Truthy(a.url) THEN a.url.value ELSE @,
              !.model = IF Truthy(a.model) THEN a.model.value ELSE @]

OverrideLogs(a) ==
    (IF a.headless
     THEN <<LogEvent("info", <<"Headless mode enabled via CLI argument">>)>> ELSE <<>>)
    \o (IF Truthy(a.url)
        THEN <<LogEvent("info", <<"BASE_URL overridden via CLI: ", a.url.value>>)>> ELSE <<>>)
    \o (IF Truthy(a.model)
        THEN <<LogEvent("info", <<"Model overridden via CLI: ", a.model.value>>)>> ELSE <<>>)

\* Mutant: the validation error is logged and main goes on.
MainStartGoesOnAfterError(a) ==
    /\ mpc = "start"
    /\ args' = a
    /\ IF a.status = "help"
       THEN /\ exitCode' = 0
            /\ mpc' = "exited"
            /\ UNCHANGED <<config, validation, trace>>
       ELSE IF a.status = "usage"
       THEN /\ exitCode' = 2
            /\ mpc' = "exited"
            /\ UNCHANGED <<config, validation, trace>>
       ELSE LET c == ApplyOverrides(config, a)
                v == LegacyValidateOutcome(c)
                started == trace \o OverrideLogs(a)
                             \o <<LogEvent("info", <<"Starting browser automation task...">>)>>
            IN /\ config' = c
               /\ validation' = v
               /\ trace' = IF v.kind = "raise"
                           THEN Append(started,
                                  LogEvent("error", <<"Configuration error: ">> \o v.message))
                           ELSE Append(started,
                                  LogEvent("info", <<"Configuration validated successfully">>))
               /\ exitCode' = -1
               /\ mpc' = "validated"
    /\ UNCHANGED <<cfgPc, config0, env, created>>
    /\ UNCHANGED <<pc, callArg, maxSteps, pending, outcome, agentOutcome, closeOutcome>>
    /\ UNCHANGED <<taskVars, factoryVars>>

\* Mutant: the configuration is validated before the overrides are applied.
MainStartValidatesFirst(a) ==
    /\ mpc = "start"
    /\ args' = a
    /\ IF a.status = "help"
       THEN /\ exitCode' = 0
            /\ mpc' = "exited"
            /\ UNCHANGED <<config, validation, trace>>
       ELSE IF a.status = "usage"
       THEN /\ exitCode' = 2
            /\ mpc' = "exited"
            /\ UNCHANGED <<config, validation, trace>>
       ELSE LET c == ApplyOverrides(config, a)
                v == LegacyValidateOutcome(config)
                started == trace \o OverrideLogs(a)
                             \o <<LogEvent("info", <<"Starting browser automation task...">>)>>
            IN /\ config' = c
               /\ validation' = v
               /\ IF v.kind = "raise"
                  THEN /\ trace' = Append(started,
                              LogEvent("error", <<"Configuration error: ">> \o v.message))
                       /\ exitCode' = 1
                       /\ mpc' = "exited"
                  ELSE /\ trace' = Append(started,
                              LogEvent("info", <<"Configuration validated successfully">>))
                       /\ exitCode' = -1
                       /\ mpc' = "validated"
    /\ UNCHANGED <<cfgPc, config0, env, created>>
    /\ UNCHANGED <<pc, callArg, maxSteps, pending, outcome, agentOutcome, closeOutcome>>
    /\ UNCHANGED <<taskVars, factoryVars>>

\* main from its start to the end of validation: parse the command line,
\* apply the overrides, validate; a ValueError is logged and ends the
\* process with status 1, SystemExit from argparse passes both handlers.
MainStart(a) ==
    /\ mpc = "start"
    /\ args' = a
    /\ IF a.status = "help"
       THEN /\ exitCode' = 0
            /\ mpc' = "exited"
            /\ UNCHANGED <<config, validation, trace>>
       ELSE IF a.status = "usage"
       THEN /\ exitCode' = 2
            /\ mpc' = "exited"
            /\ UNCHANGED <<config, validation, trace>>
       ELSE LET c == ApplyOverrides(config, a)
                v == LegacyValidateOutcome(c)
                started == trace \o OverrideLogs(a)
                             \o <<LogEvent("info", <<"Starting browser automation task...">>)>>
            IN /\ config' = c
               /\ validation' = v
               /\ IF v.kind = "raise"
                  THEN /\ trace' = Append(started,
                              LogEvent("error", <<"Configuration error: ">> \o v.message))
                       /\ exitCode' = 1
                       /\ mpc' = "exited"
                  ELSE /\ trace' = Append(started,
                              LogEvent("info", <<"Configuration validated successfully">>))
                       /\ exitCode' = -1
                       /\ mpc' = "validated"
    /\ UNCHANGED <<cfgPc, config0, env, created>>
    /\ UNCHANGED <<pc, callArg, maxSteps, pending, outcome, agentOutcome, closeOutcome>>
    /\ UNCHANGED <<taskVars, factoryVars>>

\* The collaborators create_agent constructs, in the order of its code.
CreateSteps == <<"ChatOpenAI", "Browser", "BrowserContext", "Controller", "Agent">>

\* The constructor that raises, 0 when none does.
FailPoints == 0..Len(CreateSteps)

\* The classes of exception a constructor may raise: main has one handler
\* for ValueError and one for any other Exception.
ConstructorErrorClasses == {"ValueError", "RuntimeError"}

\* The log line of the handler of main that takes an exception of class cls.
HandlerLog(cls, msg) ==
    IF cls = "ValueError"
    THEN LogEvent("error", <<"Configuration error: ", msg>>)
    ELSE LogEvent("error", <<"Unexpected error: ", msg>>)

\* No browser, session or agent has been constructed.
NoBrowser ==
    [built |-> FALSE, headless |-> FALSE, path_assigned |-> FALSE,
     browser_binary_path |-> None]

NoContext == [id |-> 0, browser |-> NoBrowser]

NoAgent ==
    [built |-> FALSE, task |-> <<>>, llm |-> [model |-> "", api_key |-> None],
     max_actions_per_step |-> -1, controller |-> "", browser_context |-> NoContext]

LegacyMaxActions == 5

\* The BrowserConfig of create_agent in task.py: the binary path is given to
\* the constructor when chromium_path is non-empty, and left out otherwise.
LegacyBrowserConfig(c) ==
    IF c.chromium_path # ""
    THEN [built |-> TRUE, headless |-> c.headless, path_assigned |-> TRUE,
          browser_binary_path |-> Some(c.chromium_path)]
    ELSE [built |-> TRUE, headless |-> c.headless, path_assigned |-> FALSE,
          browser_binary_path |-> None]

\* The f-string given to Agent as its task, in pieces, with the url, the
\* username and the password put in; an absent secret is written as "".
LegacyInstructions(c) ==
    <<"Navigate to the login page and authenticate. Here are the specific steps: - Go to ",
      c.base_url,
      " - See the header (h2) text that says \"Test login\" (look for attribute: 'id=\"login\"') - Find input to Enter Username (look for attribute: 'name=\"username\"') * username value is \"",
      IF Truthy(c.auth_username) THEN c.auth_username.value ELSE "",
      "\" - Find input to Enter Password (look for attribute: 'name=\"password\"') * password value is \"",
      IF Truthy(c.auth_password) THEN c.auth_password.value ELSE "",
      "\" - Successful login will display the following text, \"Logged In Successfully\" - The \"Log out\" button should be present and visible Important: - Wait for each element to load before interacting">>

\* The keyword arguments of Agent(...) in create_agent of task.py.
LegacyAgent(c, ctx) ==
    [built |-> TRUE,
     task |-> LegacyInstructions(c),
     llm |-> [model |-> c.model, api_key |-> c.openai_api_key],
     max_actions_per_step |-> LegacyMaxActions,
     controller |-> "Controller()",
     browser_context |-> ctx]

\* The collaborators constructed when the constructor at failAt raises, all
\* of them when none does.
Constructed(failAt) ==
    IF failAt = 0 THEN CreateSteps ELSE SubSeq(CreateSteps, 1, failAt - 1)

Made(made, name) == \E i \in DOMAIN made : made[i] = name

\* Mutant: the agent is bound to a session of its own, and a second session
\* of the same browser is what create_agent returns to be closed.
MainCreateAgentFreshSession(failAt, cls) ==
    /\ mpc = "validated"
    /\ LET setup == <<LogEvent("info", <<"Initializing agent with model: ", config.model>>)>>
                    \o (IF failAt = 1 THEN <<>> ELSE
                        <<LogEvent("info", <<"Configuring browser (headless=",
                              IF config.headless THEN "True" ELSE "False", ")">>)>>)
           made == Constructed(failAt)
           b == IF Made(made, "Browser") THEN LegacyBrowserConfig(config) ELSE NoBrowser
           cs == IF Made(made, "BrowserContext")
                 THEN <<[id |-> 1, browser |-> b], [id |-> 2, browser |-> b]>> ELSE <<>>
       IN /\ created' = made
          /\ browser' = b
          /\ contexts' = cs
          /\ agent' = IF Made(made, "Agent") THEN LegacyAgent(config, cs[2]) ELSE NoAgent
          /\ IF failAt = 0
             THEN /\ trace' = trace \o setup
                  /\ mpc' = "navigate"
                  /\ UNCHANGED exitCode
             ELSE /\ trace' = Append(trace \o setup, HandlerLog(cls, CreateSteps[failAt]))
                  /\ exitCode' = 1
                  /\ mpc' = "exited"
    /\ UNCHANGED <<env, args>>
    /\ UNCHANGED configVars
    /\ UNCHANGED <<pc, callArg, maxSteps, pending, outcome, agentOutcome, closeOutcome>>
    /\ UNCHANGED <<taskVars, fpc, agentArgs>>

\* create_agent and what main does with its result: the constructors run in
\* order until one raises; the browser is built from the configuration, the
\* session from the browser, the agent from the configuration and the
\* session.  An exception (of class cls) leaves create_agent at once and is
\* handled by main, which logs it and ends the process with status 1.
MainCreateAgent(failAt, cls) ==
    /\ mpc = "validated"
    /\ LET setup == <<LogEvent("info", <<"Initializing agent with model: ", config.model>>)>>
                    \o (IF failAt = 1 THEN <<>> ELSE
                        <<LogEvent("info", <<"Configuring browser (headless=",
                              IF config.headless THEN "True" ELSE "False", ")">>)>>)
           made == Constructed(failAt)
           b == IF Made(made, "Browser") THEN LegacyBrowserConfig(config) ELSE NoBrowser
           cs == IF Made(made, "BrowserContext") THEN <<[id |-> 1, browser |-> b]>> ELSE <<>>
       IN /\ created' = made
          /\ browser' = b
          /\ contexts' = cs
          /\ agent' = IF Made(made, "Agent") THEN LegacyAgent(config, cs[1]) ELSE NoAgent
          /\ IF failAt = 0
             THEN /\ trace' = trace \o setup
                  /\ mpc' = "navigate"
                  /\ UNCHANGED exitCode
             ELSE /\ trace' = Append(trace \o setup, HandlerLog(cls, CreateSteps[failAt]))
                  /\ exitCode' = 1
                  /\ mpc' = "exited"
    /\ UNCHANGED <<env, args>>
    /\ UNCHANGED configVars
    /\ UNCHANGED <<pc, callArg, maxSteps, pending, outcome, agentOutcome, closeOutcome>>
    /\ UNCHANGED <<taskVars, fpc, agentArgs>>

NavMaxSteps == 25

\* navigate up to the await of agent.run(max_steps=25).
NavStart ==
    /\ mpc = "navigate"
    /\ pc = "init"
    /\ maxSteps' = NavMaxSteps
    /\ trace' = Append(Append(trace,
                    LogEvent("info", <<"Starting agent navigation task...">>)),
                    AgentRunEvent(NavMaxSteps))
    /\ pc' = "awaitAgent"
    /\ UNCHANGED <<callArg, pending, outcome, agentOutcome, closeOutcome>>
    /\ UNCHANGED <<configVars, mainVars>>
    /\ UNCHANGED <<taskVars, factoryVars>>

\* agent.run returned v in navigate.
NavAgentReturns(v) ==
    /\ mpc = "navigate"
    /\ pc = "awaitAgent"
    /\ agentOutcome' = Returned(v)
    /\ pending' = Returned(v)
    /\ trace' = FinallyUntilClose(Append(trace,
                    LogEvent("info", <<"Navigation task completed successfully!">>)))
    /\ pc' = "awaitClose"
    /\ UNCHANGED <<callArg, maxSteps, outcome, closeOutcome>>
    /\ UNCHANGED <<configVars, mainVars>>
    /\ UNCHANGED <<taskVars, factoryVars>>

\* agent.run raised e in navigate.
NavAgentRaises(e) ==
    /\ mpc = "navigate"
    /\ pc = "awaitAgent"
    /\ agentOutcome' = Raised(e, NoExc)
    /\ pending' = Raised(e, NoExc)
    /\ trace' = FinallyUntilClose(
                    IF e.isException
                    THEN Append(trace, LogEvent("error", ErrorLogText(e)))
                    ELSE trace)
    /\ pc' = "awaitClose"
    /\ UNCHANGED <<callArg, maxSteps, outcome, closeOutcome>>
    /\ UNCHANGED <<configVars, mainVars>>
    /\ UNCHANGED <<taskVars, factoryVars>>

\* close returned in navigate.
NavCloseReturns ==
    /\ mpc = "navigate"
    /\ pc = "awaitClose"
    /\ closeOutcome' = Returned(PyNone)
    /\ trace' = Append(trace, LogEvent("info", <<"Browser closed successfully">>))
    /\ outcome' = pending
    /\ pc' = "done"
    /\ UNCHANGED <<callArg, maxSteps, pending, agentOutcome>>
    /\ UNCHANGED <<configVars, mainVars>>
    /\ UNCHANGED <<taskVars, factoryVars>>

\* close raised c in navigate.
NavCloseRaises(c) ==
    /\ mpc = "navigate"
    /\ pc = "awaitClose"
    /\ closeOutcome' = Raised(c, NoExc)
    /\ outcome' = Raised(c, pending.exc)
    /\ pc' = "done"
    /\ UNCHANGED <<callArg, maxSteps, pending, agentOutcome, trace>>
    /\ UNCHANGED <<configVars, mainVars>>
    /\ UNCHANGED <<taskVars, factoryVars>>

\* The exit status of a process ended by an exception no handler of main
\* takes: an interrupt ends with 130; SystemExit(1) ends with its status 1
\* and any other is reported by the interpreter with status 1.
UncaughtExitStatus(e) ==
    IF e.cls = "KeyboardInterrupt" THEN 130 ELSE 1

\* Mutant: the handlers of main log the error and do not call sys.exit(1).
MainFinishNoExit ==
    /\ mpc = "navigate"
    /\ pc = "done"
    /\ IF outcome.kind = "return"
       THEN /\ trace' = Append(trace, LogEvent("info", <<"Task completed successfully!">>))
            /\ exitCode' = 0
       ELSE IF outcome.exc.isException
       THEN /\ trace' = Append(trace, HandlerLog(outcome.exc.cls, outcome.exc.msg))
            /\ exitCode' = 0
       ELSE /\ trace' = trace
            /\ exitCode' = UncaughtExitStatus(outcome.exc)
    /\ mpc' = "exited"
    /\ UNCHANGED <<env, args, created>>
    /\ UNCHANGED configVars
    /\ UNCHANGED <<pc, callArg, maxSteps, pending, outcome, agentOutcome, closeOutcome>>
    /\ UNCHANGED <<taskVars, factoryVars>>

\* main after asyncio.run(navigate(...)): the last log line on success, the
\* handler for ValueError or for Exception on an error, no handler for the
\* rest.
MainFinish ==
    /\ mpc = "navigate"
    /\ pc = "done"
    /\ IF outcome.kind = "return"
       THEN /\ trace' = Append(trace, LogEvent("info", <<"Task completed successfully!">>))
            /\ exitCode' = 0
       ELSE IF outcome.exc.isException
       THEN /\ trace' = Append(trace, HandlerLog(outcome.exc.cls, outcome.exc.msg))
            /\ exitCode' = 1
       ELSE /\ trace' = trace
            /\ exitCode' = UncaughtExitStatus(outcome.exc)
    /\ mpc' = "exited"
    /\ UNCHANGED <<env, args, created>>
    /\ UNCHANGED configVars
    /\ UNCHANGED <<pc, callArg, maxSteps, pending, outcome, agentOutcome, closeOutcome>>
    /\ UNCHANGED <<taskVars, factoryVars>>

MainNext ==
    \/ \E a \in ParseResults : MainStart(a)
    \/ \E failAt \in FailPoints, cls \in ConstructorErrorClasses :
            MainCreateAgent(failAt, cls)
    \/ NavStart
    \/ \E v \in AgentResults : NavAgentReturns(v)
    \/ \E e \in AgentErrors \cup AgentSignals : NavAgentRaises(e)
    \/ NavCloseReturns
    \/ \E c \in CloseErrors : NavCloseRaises(c)
    \/ MainFinish

----------------------------------------------------------------------------
(* LoginTask (browser_automation/tasks/login_task.py) *)

MaxFieldLen == 2

MaxCalls == 2

\* The characters of a url, a username or a password; the double quote is
\* the character the template puts around the credentials.
FieldAlphabet == {"a", "\""}

\* A url, username or password: a sequence of characters.
FieldStrings == UNION { [1..k -> FieldAlphabet] : k \in 0..MaxFieldLen }

TaskCredentials(username, password) == [username |-> username, password |-> password]

LoginTaskOf(url, credentials) == [url |-> url, credentials |-> credentials]

LoginTasks ==
    { LoginTaskOf(u, TaskCredentials(n, w)) :
        u \in FieldStrings, n \in FieldStrings, w \in FieldStrings }

\* Mutant: the password is written as asterisks.
RenderRedactsPassword(t) ==
    <<"Your task is to navigate to a login page and successfully authenticate using the provided credentials.",
      "OBJECTIVE: Complete the login process and verify successful authentication.",
      "REQUIRED ACTIONS (execute in order):",
      "1. Navigate to the login page: - URL: ">>
    \o t.url
    \o <<" - Wait for the page to fully load",
         "2. Verify you're on the correct page: - Locate the header element with text \"Test login\"",
         " - This header is an <h2> element with attribute id=\"login\"",
         "3. Enter username: - Locate the username input field (attribute: name=\"username\")",
         " - Enter the username: \"">>
    \o t.credentials.username
    \o <<"\" - Verify the text was entered correctly",
         "4. Enter password: - Locate the password input field (attribute: name=\"password\")",
         " - Enter the password: \"">>
    \o <<"*", "*", "*">>
    \o <<"\" - Verify the text was entered correctly",
         "5. Submit the login form: - Locate and click the submit/login button",
         "6. Verify successful authentication: - Confirm the text \"",
         "Logged In Successfully",
         "\" is displayed on the page - Confirm the \"",
         "Log out",
         "\" button is present and visible",
         "SUCCESS CRITERIA: - The message \"",
         "Logged In Successfully",
         "\" is visible on the page - The \"",
         "Log out",
         "\" button is present and visible",
         "IMPORTANT GUIDELINES: - Wait for each element to be visible and interactive">>

\* The f-string of get_instructions: the fixed text in pieces, with the url,
\* the username and the password put in as they are.
Render(t) ==
    <<"Your task is to navigate to a login page and successfully authenticate using the provided credentials.",
      "OBJECTIVE: Complete the login process and verify successful authentication.",
      "REQUIRED ACTIONS (execute in order):",
      "1. Navigate to the login page: - URL: ">>
    \o t.url
    \o <<" - Wait for the page to fully load",
         "2. Verify you're on the correct page: - Locate the header element with text \"Test login\"",
         " - This header is an <h2> element with attribute id=\"login\"",
         "3. Enter username: - Locate the username input field (attribute: name=\"username\")",
         " - Enter the username: \"">>
    \o t.credentials.username
    \o <<"\" - Verify the text was entered correctly",
         "4. Enter password: - Locate the password input field (attribute: name=\"password\")",
         " - Enter the password: \"">>
    \o t.credentials.password
    \o <<"\" - Verify the text was entered correctly",
         "5. Submit the login form: - Locate and click the submit/login button",
         "6. Verify successful authentication: - Confirm the text \"",
         "Logged In Successfully",
         "\" is displayed on the page - Confirm the \"",
         "Log out",
         "\" button is present and visible",
         "SUCCESS CRITERIA: - The message \"",
         "Logged In Successfully",
         "\" is visible on the page - The \"",
         "Log out",
         "\" button is present and visible",
         "IMPORTANT GUIDELINES: - Wait for each element to be visible and interactive">>

\* The name property.
TaskName(t) == "login"

\* Mutant: get_instructions clears the password once it has rendered it.
GetInstructionsConsumesPassword ==
    /\ Len(rendered) < MaxCalls
    /\ rendered' = Append(rendered, Render(task))
    /\ task' = [task EXCEPT !.credentials.password = <<>>]
    /\ UNCHANGED <<task0, names>>
    /\ UNCHANGED <<runnerVars, configVars, mainVars, factoryVars>>

\* A call of get_instructions on the task.
GetInstructions ==
    /\ Len(rendered) < MaxCalls
    /\ rendered' = Append(rendered, Render(task))
    /\ UNCHANGED <<task, task0, names>>
    /\ UNCHANGED <<runnerVars, configVars, mainVars, factoryVars>>

\* A read of the name property of the task.
ReadName ==
    /\ Len(names) < MaxCalls
    /\ names' = Append(names, TaskName(task))
    /\ UNCHANGED <<task, task0, rendered>>
    /\ UNCHANGED <<runnerVars, configVars, mainVars, factoryVars>>

\* LoginTask(url, credentials)
TaskInit ==
    /\ task \in LoginTasks
    /\ task0 = task
    /\ rendered = <<>>
    /\ names = <<>>

TaskNext == GetInstructions \/ ReadName

----------------------------------------------------------------------------
(* BrowserFactory and AgentFactory *)

MaxContexts == 2

MaxActionsBound == 2

DefaultMaxActions == 5

\* The BrowserConfig a Browser is constructed with; browser_binary_path is
\* None, the engine's default, unless it is assigned.
BrowserConfig(headless) ==
    [built |-> TRUE, headless |-> headless, path_assigned |-> FALSE,
     browser_binary_path |-> None]

AssignPath(bc, path) ==
    [bc EXCEPT !.path_assigned = TRUE, !.browser_binary_path = Some(path)]

\* Mutant: the path is assigned whether or not it is empty.
BrowserConfigForAlwaysAssigns(c) == AssignPath(BrowserConfig(c.headless), c.chromium_path)

\* The browser_config of create_browser.
BrowserConfigFor(c) ==
    IF c.chromium_path # ""
    THEN AssignPath(BrowserConfig(c.headless), c.chromium_path)
    ELSE BrowserConfig(c.headless)

\* BrowserFactory.create_browser(config)
CreateBrowser ==
    /\ fpc = "init"
    /\ browser' = BrowserConfigFor(config)
    /\ trace' = Append(trace, LogEvent("info",
                    <<"Configuring browser (headless=",
                      IF config.headless THEN "True" ELSE "False", ")">>))
    /\ fpc' = "browser"
    /\ UNCHANGED <<contexts, agentArgs, agent>>
    /\ UNCHANGED <<pc, callArg, maxSteps, pending, outcome, agentOutcome, closeOutcome>>
    /\ UNCHANGED <<configVars, mainVars, taskVars>>

\* BrowserFactory.create_context(browser): a new BrowserContext of the browser.
CreateContext ==
    /\ fpc = "browser"
    /\ Len(contexts) < MaxContexts
    /\ contexts' = Append(contexts, [id |-> Len(contexts) + 1, browser |-> browser])
    /\ UNCHANGED <<fpc, browser, agentArgs, agent>>
    /\ UNCHANGED <<runnerVars, configVars, mainVars, taskVars>>

MaxActionsArgs ==
    { Supplied(n) : n \in (0..MaxActionsBound) \cup {DefaultMaxActions} }
        \cup {NotSupplied}

\* Mutant: the agent is always built with 5 actions per step.
BindMaxActionsFixed(arg) == DefaultMaxActions

\* Parameter binding of max_actions_per_step: int = 5.
BindMaxActions(arg) == IF arg.supplied THEN arg.value ELSE DefaultMaxActions

NoAgentArgs == [browser_context |-> NoContext, max_actions_per_step |-> NotSupplied]

\* AgentFactory.create_agent(config, task, browser_context, max_actions_per_step)
FactoryCreateAgent(ctx, arg) ==
    /\ fpc = "browser"
    /\ agentArgs' = [browser_context |-> ctx, max_actions_per_step |-> arg]
    /\ trace' = Append(trace, LogEvent("info",
                    <<"Initializing agent with model: ", config.model>>))
    /\ agent' = [built |-> TRUE,
                 task |-> Render(task),
                 llm |-> [model |-> config.model, api_key |-> config.openai_api_key],
                 max_actions_per_step |-> BindMaxActions(arg),
                 controller |-> "Controller()",
                 browser_context |-> ctx]
    /\ fpc' = "agent"
    /\ UNCHANGED <<browser, contexts>>
    /\ UNCHANGED <<pc, callArg, maxSteps, pending, outcome, agentOutcome, closeOutcome>>
    /\ UNCHANGED <<configVars, mainVars, taskVars>>

\* The tasks given to the agent factory.
FactoryTasks ==
    { LoginTaskOf(<<"a">>, TaskCredentials(<<"a", "a">>, <<"\"">>)),
      LoginTaskOf(<<>>, TaskCredentials(<<"\"">>, <<"a">>)) }

FactoryInit ==
    /\ fpc = "init"
    /\ browser = NoBrowser
    /\ contexts = <<>>
    /\ agentArgs = NoAgentArgs
    /\ agent = NoAgent
    /\ task \in FactoryTasks
    /\ task0 = task
    /\ rendered = <<>>
    /\ names = <<>>
    /\ cfgPc = "built"
    /\ config \in AppConfigs
    /\ config0 = config
    /\ validation = NotValidated

FactoryNext ==
    \/ CreateBrowser
    \/ CreateContext
    \/ \E i \in DOMAIN contexts : \E arg \in MaxActionsArgs :
            FactoryCreateAgent(contexts[i], arg)

----------------------------------------------------------------------------
(* ConfigLoader.from_env (browser_automation/config.py) *)

\* Mutant: a secret is wrapped whenever its variable is set.
FromEnvWrapsWhenSet(e) ==
    AppConfig(
        IF e.OPENAI_API_KEY.present THEN SecretStr(e.OPENAI_API_KEY.value) ELSE None,
        GetEnv(e, "CHROMIUM_PATH", DefaultChromiumPath),
        GetEnv(e, "BASE_URL", ""),
        IF e.AUTH_USERNAME.present THEN SecretStr(e.AUTH_USERNAME.value) ELSE None,
        IF e.AUTH_PASSWORD.present THEN SecretStr(e.AUTH_PASSWORD.value) ELSE None,
        FALSE,
        DefaultModel)

\* Mutant: BASE_URL has a placeholder as its default.
FromEnvDefaultUrl(e) ==
    AppConfig(
        IF Truthy(e.OPENAI_API_KEY) THEN SecretStr(e.OPENAI_API_KEY.value) ELSE None,
        GetEnv(e, "CHROMIUM_PATH", DefaultChromiumPath),
        GetEnv(e, "BASE_URL", "http://localhost"),
        IF Truthy(e.AUTH_USERNAME) THEN SecretStr(e.AUTH_USERNAME.value) ELSE None,
        IF Truthy(e.AUTH_PASSWORD) THEN SecretStr(e.AUTH_PASSWORD.value) ELSE None,
        FALSE,
        DefaultModel)

\* Mutant: the default path also replaces a CHROMIUM_PATH set to "".
FromEnvPathOrDefault(e) ==
    AppConfig(
        IF Truthy(e.OPENAI_API_KEY) THEN SecretStr(e.OPENAI_API_KEY.value) ELSE None,
        IF Truthy(e.CHROMIUM_PATH) THEN e.CHROMIUM_PATH.value ELSE DefaultChromiumPath,
        GetEnv(e, "BASE_URL", ""),
        IF Truthy(e.AUTH_USERNAME) THEN SecretStr(e.AUTH_USERNAME.value) ELSE None,
        IF Truthy(e.AUTH_PASSWORD) THEN SecretStr(e.AUTH_PASSWORD.value) ELSE None,
        FALSE,
        DefaultModel)

\* from_env: a secret is wrapped when os.getenv gave a non-empty string.
FromEnv(e) ==
    AppConfig(
        IF Truthy(e.OPENAI_API_KEY) THEN SecretStr(e.OPENAI_API_KEY.value) ELSE None,
        GetEnv(e, "CHROMIUM_PATH", DefaultChromiumPath),
        GetEnv(e, "BASE_URL", ""),
        IF Truthy(e.AUTH_USERNAME) THEN SecretStr(e.AUTH_USERNAME.value) ELSE None,
        IF Truthy(e.AUTH_PASSWORD) THEN SecretStr(e.AUTH_PASSWORD.value) ELSE None,
        FALSE,
        DefaultModel)

\* A call of ConfigLoader.from_env.
LoadFromEnv ==
    /\ cfgPc = "unloaded"
    /\ config' = FromEnv(env)
    /\ config0' = FromEnv(env)
    /\ cfgPc' = "built"
    /\ UNCHANGED validation
    /\ UNCHANGED <<runnerVars, mainVars, taskVars, factoryVars>>

LoaderInit ==
    /\ cfgPc = "unloaded"
    /\ env \in Envs
    /\ config = AppConfig(None, "", "", None, None, FALSE, DefaultModel)
    /\ config0 = config
    /\ validation = NotValidated
    /\ mpc = "off"
    /\ args = NotParsed
    /\ created = <<>>
    /\ exitCode = -1

LoaderNext == LoadFromEnv \/ Validate

\* BrowserFactory.create_browser on the configuration from_env returned.
CreateBrowserLoaded == cfgPc = "built" /\ CreateBrowser

\* No configuration is loaded yet and no browser is built.
LoadedBrowserInit ==
    /\ LoaderInit
    /\ fpc = "init"
    /\ browser = NoBrowser
    /\ contexts = <<>>
    /\ agentArgs = NoAgentArgs
    /\ agent = NoAgent

LoadedBrowserNext == LoadFromEnv \/ CreateBrowserLoaded

----------------------------------------------------------------------------
(* Specifications *)

RunnerIdle ==
    /\ pc = "init"
    /\ callArg = NotSupplied
    /\ maxSteps = 0
    /\ pending = NotYet
    /\ outcome = NotYet
    /\ agentOutcome = NotYet
    /\ closeOutcome = NotYet
    /\ trace = <<>>

ConfigIdle ==
    /\ cfgPc = "off"
    /\ config = AppConfig(None, "", "", None, None, FALSE, DefaultModel)
    /\ config0 = config
    /\ validation = NotValidated

MainIdle ==
    /\ mpc = "off"
    /\ env = [n \in EnvNames |-> None]
    /\ args = NotParsed
    /\ created = <<>>
    /\ exitCode = -1

\* The process after the import of task.py, before main is called.
MainInit ==
    /\ mpc = "start"
    /\ env \in Envs
    /\ args = NotParsed
    /\ created = <<>>
    /\ exitCode = -1
    /\ cfgPc = "off"
    /\ config = LegacyConfig(env)
    /\ config0 = config
    /\ validation = NotValidated

TaskIdle ==
    /\ task = LoginTaskOf(<<>>, TaskCredentials(<<>>, <<>>))
    /\ task0 = task
    /\ rendered = <<>>
    /\ names = <<>>

FactoryIdle ==
    /\ fpc = "off"
    /\ browser = NoBrowser
    /\ contexts = <<>>
    /\ agentArgs = NoAgentArgs
    /\ agent = NoAgent

RunnerSpecInit == RunnerIdle /\ ConfigIdle /\ MainIdle /\ TaskIdle /\ FactoryIdle

ConfigSpecInit == ConfigInit /\ RunnerIdle /\ MainIdle /\ TaskIdle /\ FactoryIdle

MainSpecInit == MainInit /\ RunnerIdle /\ TaskIdle /\ FactoryIdle

TaskSpecInit == TaskInit /\ RunnerIdle /\ ConfigIdle /\ MainIdle /\ FactoryIdle

FactorySpecInit == FactoryInit /\ RunnerIdle /\ MainIdle

LoaderSpecInit == LoaderInit /\ RunnerIdle /\ TaskIdle /\ FactoryIdle

\* One call of TaskRunner.run.
SpecRunner == RunnerSpecInit /\ [][RunnerNext]_vars

\* One call of ConfigValidator.validate on a configuration.
SpecConfig == ConfigSpecInit /\ [][ConfigNext]_vars

\* One run of the script task.py.
SpecMain == MainSpecInit /\ [][MainNext]_vars

\* Calls of get_instructions and name on one LoginTask.
SpecTask == TaskSpecInit /\ [][TaskNext]_vars

\* The factories applied to one configuration and one task.
SpecFactory == FactorySpecInit /\ [][FactoryNext]_vars

LoadedBrowserSpecInit == LoadedBrowserInit /\ RunnerIdle /\ TaskIdle

\* ConfigLoader.from_env on one environment, then ConfigValidator.validate.
SpecLoader == LoaderSpecInit /\ [][LoaderNext]_vars

\* ConfigLoader.from_env on one environment, then BrowserFactory.create_browser.
SpecLoadedBrowser == LoadedBrowserSpecInit /\ [][LoadedBrowserNext]_vars

----------------------------------------------------------------------------
(* Properties of TaskRunner.run, checked under SpecRunner *)

AgentRaised == agentOutcome.kind = "raise"

AgentReturned == agentOutcome.kind = "return"

CloseReturned == closeOutcome.kind = "return"

CloseRaised == closeOutcome.kind = "raise"

\* C1: when agent.run raises E and close then completes normally, close was
\* called exactly once and what TaskRunner.run raises is E itself: same
\* class, message and identity, with no other exception chained to it.
C1_ErrorPropagatesClosedOnce ==
    (pc = "done" /\ AgentRaised /\ CloseReturned)
        => /\ Count(trace, "close") = 1
           /\ outcome = Raised(agentOutcome.exc, NoExc)

C1_Witness ==
    /\ pc = "done" /\ AgentRaised /\ CloseReturned
    /\ agentOutcome.exc = PyExc("RuntimeError", "boom", TRUE, "agent.run")
    /\ outcome.kind = "raise"

\* C2: when agent.run returns V and close completes normally, TaskRunner.run
\* returns exactly V (type and content) and close was called exactly once.
C2_ResultPassedThroughClosedOnce ==
    (pc = "done" /\ AgentReturned /\ CloseReturned)
        => /\ outcome = Returned(agentOutcome.value)
           /\ Count(trace, "close") = 1

C2_Witness ==
    /\ pc = "done" /\ AgentReturned /\ CloseReturned
    /\ agentOutcome.value = PyValue("int", "0")
    /\ outcome.kind = "return"

\* C3: when agent.run raises E and close raises C, the error that
\* TaskRunner.run surfaces to its caller is still E.
C3_ExecutionErrorNotSuppressed ==
    (pc = "done" /\ AgentRaised /\ CloseRaised)
        => outcome.kind = "raise" /\ outcome.exc = agentOutcome.exc

\* C4: in every execution of TaskRunner.run close is called exactly once:
\* once when the run has ended, whatever agent.run and close did, and never
\* more than once at any point.
C4_CloseExactlyOnce ==
    /\ Count(trace, "close") <= 1
    /\ pc \in {"awaitClose", "done"} => Count(trace, "close") = 1

C4_Witness ==
    /\ pc = "done" /\ AgentRaised /\ CloseRaised
    /\ Count(trace, "close") = 1

\* C6: when agent.run returns normally and close raises C, TaskRunner.run
\* raises C and returns no result, and agent.run was called exactly once,
\* before close was called.
C6_CloseFailureRaisedAfterSuccess ==
    (pc = "done" /\ AgentReturned /\ CloseRaised)
        => /\ outcome.kind = "raise"
           /\ outcome.exc = closeOutcome.exc
           /\ outcome.value = NoValue
           /\ Count(trace, "agent.run") = 1
           /\ \A i \in Positions(trace, "agent.run") :
                \A j \in Positions(trace, "close") : i < j

C6_Witness ==
    /\ pc = "done" /\ AgentReturned /\ CloseRaised
    /\ agentOutcome.value = PyValue("str", "ok")
    /\ outcome.exc = PyExc("Exception", "Close failed", TRUE, "close")

\* C7: once TaskRunner.run has started, agent.run has been called exactly
\* once, with the caller's max_steps (0 and large values included) or with
\* 25 when none was given; with max_steps = 0 the agent's result is what a
\* run with a normal close returns.
C7_MaxStepsPassedThrough ==
    /\ pc # "init" =>
        /\ Count(trace, "agent.run") = 1
        /\ \A i \in Positions(trace, "agent.run") :
              trace[i].n = (IF callArg.supplied THEN callArg.value ELSE 25)
    /\ (pc = "done" /\ callArg = Supplied(0) /\ AgentReturned /\ CloseReturned)
        => outcome = Returned(agentOutcome.value)

C7_Witness ==
    /\ pc = "done" /\ callArg = Supplied(0) /\ AgentReturned /\ CloseReturned
    /\ \E i \in Positions(trace, "agent.run") : trace[i].n = 0
    /\ outcome = Returned(PyValue("str", "ok"))

\* C20: when both agent.run and close raise, the exception that propagates
\* out of TaskRunner.run is the close failure; the execution failure is no
\* longer what the caller receives (it is kept only as the context).
C20_CloseFailureReplacesExecutionError ==
    (pc = "done" /\ AgentRaised /\ CloseRaised)
        => /\ outcome.kind = "raise"
           /\ outcome.exc = closeOutcome.exc
           /\ outcome.exc # agentOutcome.exc
           /\ outcome.context = agentOutcome.exc

C20_Witness ==
    /\ pc = "done"
    /\ agentOutcome.exc = PyExc("Exception", "Close failed", TRUE, "agent.run")
    /\ closeOutcome.exc = PyExc("Exception", "Close failed", TRUE, "close")
    /\ outcome.exc.origin = "close"

CompletionLogs(tr) ==
    { i \in DOMAIN tr :
        tr[i] = LogEvent("info", <<"Navigation task completed successfully!">>) }

AgentFailed == AgentRaised /\ agentOutcome.exc.isException

AgentSignalled == AgentRaised /\ ~agentOutcome.exc.isException

\* The order of the run in every state: close is called only after
\* agent.run has ended, and after the call of close nothing but log lines.
LifecycleOrder ==
    /\ pc \in {"init", "awaitAgent"} =>
          agentOutcome = NotYet /\ Count(trace, "close") = 0
    /\ pc \in {"awaitClose", "done"} => (AgentReturned \/ AgentRaised)
    /\ pc = "done" <=> (CloseReturned \/ CloseRaised)
    /\ \A j \in Positions(trace, "close") :
          /\ \A i \in Positions(trace, "agent.run") : i < j
          /\ \A k \in DOMAIN trace : k > j => trace[k].ev = "log"

\* The steps of the run: each position has one successor, the outcome of
\* agent.run never changes once it is set, and a run that has ended issues
\* no further call.
LifecycleStep ==
    /\ pc = "init" => pc' = "awaitAgent"
    /\ pc = "awaitAgent" => pc' = "awaitClose"
    /\ pc = "awaitClose" => pc' = "done"
    /\ pc = "done" => UNCHANGED <<pc, trace>>
    /\ agentOutcome # NotYet => agentOutcome' = agentOutcome

\* C21: TaskRunner.run goes INIT -> RUNNING -> (COMPLETED | FAILED) ->
\* CLOSED: close is never called before agent.run has returned or raised,
\* exactly one of returned and raised holds before the session is closed,
\* and once the session is closed no agent or session call is issued.
C21_Lifecycle == []LifecycleOrder /\ [][LifecycleStep]_vars

C21_Witness ==
    /\ pc = "done" /\ AgentRaised /\ CloseReturned
    /\ Count(trace, "agent.run") = 1
    /\ Count(trace, "close") = 1
    /\ trace[Len(trace)] = LogEvent("info", <<"Browser closed successfully">>)

\* C22: in every execution of TaskRunner.run, agent.run is called exactly
\* once, whether it returns or raises: a failed execution is not attempted
\* again.
C22_NoRetry ==
    /\ Count(trace, "agent.run") <= 1
    /\ (AgentReturned \/ AgentRaised) => Count(trace, "agent.run") = 1
    /\ pc = "done" => Count(trace, "agent.run") = 1

C22_Witness ==
    /\ pc = "done"
    /\ agentOutcome.exc = PyExc("ValueError", "Invalid input", TRUE, "agent.run")
    /\ Count(trace, "agent.run") = 1

\* C23: when agent.run raises an exception, the error is logged exactly
\* once, with the message of the exception, before close is called and so
\* before the error reaches the caller; the completion message is logged
\* only when agent.run returned, never on the failure path.
C23_ErrorLoggedOnceBeforeClose ==
    /\ AgentFailed =>
          /\ Cardinality(ErrorLogs(trace)) = 1
          /\ \A i \in ErrorLogs(trace) :
                /\ trace[i].text = <<"Error during navigation: ", agentOutcome.exc.msg>>
                /\ \A j \in Positions(trace, "close") : i < j
          /\ CompletionLogs(trace) = {}
    /\ CompletionLogs(trace) # {} => AgentReturned
    /\ AgentReturned => ErrorLogs(trace) = {}

C23_Witness ==
    /\ pc = "done" /\ AgentFailed
    /\ outcome.kind = "raise"
    /\ \E i \in ErrorLogs(trace) :
          trace[i].text = <<"Error during navigation: ", "boom">>

----------------------------------------------------------------------------
(* Properties of main in task.py, checked under SpecMain *)

SessionCreated == \E i \in DOMAIN created : created[i] = "BrowserContext"

\* C5: in every execution of main in which a browser session was created,
\* the session's close has been called exactly once when the process exits,
\* whichever later step failed.
C5_SessionClosedOnceBeforeExit ==
    (mpc = "exited" /\ SessionCreated) => Count(trace, "close") = 1

\* A required field of the configuration is absent or empty.
ConfigIncomplete(c) ==
    \/ c.openai_api_key = None \/ c.openai_api_key.value = ""
    \/ c.base_url = ""
    \/ c.auth_username = None \/ c.auth_username.value = ""
    \/ c.auth_password = None \/ c.auth_password.value = ""

ValidationFailed ==
    \/ validation.kind = "raise"
    \/ mpc # "start" /\ args.status = "ok" /\ ConfigIncomplete(config)

\* C11: when configuration validation fails in main, the process has exited
\* and no LLM client, browser, session or agent was created, nor was the
\* agent run or a session closed; whenever a collaborator exists, validation
\* has passed before.
C11_FailFast ==
    /\ ValidationFailed =>
          /\ mpc = "exited"
          /\ created = <<>>
          /\ Count(trace, "agent.run") = 0
          /\ Count(trace, "close") = 0
    /\ created # <<>> => validation = ValidationPassed

C11_Witness ==
    /\ mpc = "exited"
    /\ validation.kind = "raise"
    /\ ConfigIncomplete(config)
    /\ args.status = "ok"
    /\ created = <<>>

\* C12: in every state in which a browser session exists the four required
\* fields of the configuration are non-empty, and the configuration is the
\* module-level one with the command-line overrides applied: no later step
\* has changed it.
C12_ConfigCompleteAndFrozen ==
    SessionCreated =>
        /\ ~ConfigIncomplete(config)
        /\ config = [config0 EXCEPT
                        !.headless = IF args.headless THEN TRUE ELSE @,
                        !.base_url = IF args.url.present /\ args.url.value # ""
                                     THEN args.url.value ELSE @,
                        !.model = IF args.model.present /\ args.model.value # ""
                                  THEN args.model.value ELSE @]

C12_Witness ==
    /\ mpc = "exited"
    /\ SessionCreated
    /\ Count(trace, "close") = 1
    /\ ~env.BASE_URL.present
    /\ config.base_url = "https://cli.test/login"

\* C13: the exit status is 1 when configuration validation fails or an
\* exception (a subclass of Exception) escapes resource creation, the agent's
\* run or the close of the session; it is 0 when the task ran to completion
\* without error; and --help exits with 0.
C13_ExitCodes ==
    mpc = "exited" =>
        /\ validation.kind = "raise" => exitCode = 1
        /\ (validation.kind = "return" /\ Len(created) < 5) => exitCode = 1
        /\ (outcome.kind = "raise" /\ outcome.exc.isException) => exitCode = 1
        /\ outcome.kind = "return" => exitCode = 0
        /\ args.status = "help" => exitCode = 0

C13_Witness ==
    /\ mpc = "exited"
    /\ agentOutcome.kind = "return"
    /\ closeOutcome.kind = "raise" /\ closeOutcome.exc.isException
    /\ exitCode = 1

\* C19 as first stated: --headless sets headless, --url replaces base_url
\* and --model replaces the model whenever the flag is given, every other
\* field staying as it was.
C19_GivenFlagReplacesField ==
    (mpc # "start" /\ args.status = "ok") =>
        config = [config0 EXCEPT
                    !.headless = IF args.headless THEN TRUE ELSE @,
                    !.base_url = IF args.url.present THEN args.url.value ELSE @,
                    !.model = IF args.model.present THEN args.model.value ELSE @]

\* C19: the command-line overrides change only the field they name:
\* --headless sets headless to true, --url with a non-empty value replaces
\* base_url, --model with a non-empty value replaces the model; a flag that
\* is not given, or given with an empty value, leaves its field as it was,
\* and the credentials, the api key and the browser path never change.
C19_OverridesChangeOnlyTheirField ==
    (mpc # "start" /\ args.status = "ok") =>
        /\ config.headless = (args.headless \/ config0.headless)
        /\ config.base_url = (IF args.url.present /\ args.url.value # ""
                              THEN args.url.value ELSE config0.base_url)
        /\ config.model = (IF args.model.present /\ args.model.value # ""
                           THEN args.model.value ELSE config0.model)
        /\ config.openai_api_key = config0.openai_api_key
        /\ config.auth_username = config0.auth_username
        /\ config.auth_password = config0.auth_password
        /\ config.chromium_path = config0.chromium_path

C19_Witness ==
    /\ mpc # "start" /\ args.status = "ok"
    /\ args.headless /\ config.headless
    /\ args.url = Some("https://cli.test/login") /\ config.base_url = "https://cli.test/login"
    /\ args.model = Some("") /\ config.model = "gpt-4o-mini"
    /\ config0.base_url = "https://x.test/login"

Occurrences(seq, name) == Cardinality({ i \in DOMAIN seq : seq[i] = name })

\* C24: one execution of main creates at most one browser, one session,
\* derived from that browser, and one agent, bound to that session; the
\* agent is run at most once and a session is closed at most once, and when
\* the agent is run or the session closed, that one agent and that one
\* session exist: there is no second session that could be the one closed.
C24_OneBrowserOneSessionOneAgent ==
    /\ \A name \in {"Browser", "BrowserContext", "Agent"} :
          Occurrences(created, name) <= 1
    /\ Len(contexts) = Occurrences(created, "BrowserContext")
    /\ browser.built <=> Occurrences(created, "Browser") = 1
    /\ agent.built <=> Occurrences(created, "Agent") = 1
    /\ \A i \in DOMAIN contexts : browser.built /\ contexts[i].browser = browser
    /\ agent.built =>
          /\ Len(contexts) = 1
          /\ agent.browser_context = contexts[1]
    /\ Count(trace, "agent.run") <= 1
    /\ Count(trace, "close") <= 1
    /\ Count(trace, "agent.run") = 1 => agent.built
    /\ Count(trace, "close") = 1 =>
          /\ Len(contexts) = 1
          /\ agent.browser_context = contexts[1]
    /\ (mpc = "exited" /\ agent.built) =>
          Count(trace, "agent.run") = 1 /\ Count(trace, "close") = 1

C24_Witness ==
    /\ mpc = "exited"
    /\ agent.built
    /\ Len(contexts) = 1
    /\ agent.browser_context.id = 1
    /\ contexts[1].browser.browser_binary_path = Some("/usr/bin/chromium")
    /\ Count(trace, "agent.run") = 1
    /\ Count(trace, "close") = 1
    /\ outcome.kind = "return"

\* The three required values other than BASE_URL are set and non-empty.
OtherRequiredSet ==
    \A n \in {"OPENAI_API_KEY", "AUTH_USERNAME", "AUTH_PASSWORD"} :
        env[n].present /\ env[n].value # ""

\* C27: the command-line overrides are applied before validation, and only
\* for a non-empty value: with BASE_URL unset, the other three required
\* values set and a non-empty --url, validation passes and the agent's task
\* is built with the url of the command line; with --url given as the empty
\* string base_url keeps the value of the environment.
C27_OverridesBeforeValidation ==
    (mpc # "start" /\ args.status = "ok") =>
        /\ (~env.BASE_URL.present /\ OtherRequiredSet
                /\ args.url.present /\ args.url.value # "") =>
              /\ validation = ValidationPassed
              /\ config.base_url = args.url.value
              /\ agent.built =>
                    Contains(agent.task, <<args.url.value>>)
        /\ (args.url.present /\ args.url.value = "") =>
              config.base_url =
                  (IF env.BASE_URL.present THEN env.BASE_URL.value ELSE "")

C27_Witness ==
    /\ agent.built
    /\ ~env.BASE_URL.present
    /\ OtherRequiredSet
    /\ args.url = Some("https://cli.test/login")
    /\ validation = ValidationPassed
    /\ Contains(agent.task, <<"https://cli.test/login">>)

----------------------------------------------------------------------------
(* Properties of ConfigValidator.validate, checked under SpecConfig *)

RequiredFields == {"openai_api_key", "base_url", "auth_username", "auth_password"}

EnvNameOf(f) ==
    CASE f = "openai_api_key" -> "OPENAI_API_KEY"
      [] f = "base_url" -> "BASE_URL"
      [] f = "auth_username" -> "AUTH_USERNAME"
      [] f = "auth_password" -> "AUTH_PASSWORD"

\* A required field is missing when it is absent or empty.
FieldMissing(c, f) ==
    IF f = "base_url" THEN c.base_url = ""
    ELSE c[f] = None \/ c[f].value = ""

MissingFields(c) == { f \in RequiredFields : FieldMissing(c, f) }

Names(message, f) == Contains(message, <<EnvNameOf(f)>>)

\* C8: for a configuration missing at least one of the four required
\* fields, validate raises one ValueError whose message contains the name
\* of every missing field.
C8_EveryMissingFieldNamed ==
    (cfgPc = "validated" /\ MissingFields(config0) # {})
        => /\ validation.kind = "raise"
           /\ validation.cls = "ValueError"
           /\ \A f \in MissingFields(config0) : Names(validation.message, f)

C8_Witness ==
    /\ cfgPc = "validated"
    /\ MissingFields(config0) = RequiredFields
    /\ validation.kind = "raise"
    /\ \A f \in RequiredFields : Names(validation.message, f)

\* C9: the message of a failed validate names a required field if and only
\* if that field is missing (absent or empty).
C9_NamedIffMissing ==
    (cfgPc = "validated" /\ validation.kind = "raise")
        => \A f \in RequiredFields :
              Names(validation.message, f) <=> FieldMissing(config0, f)

C9_Witness ==
    /\ cfgPc = "validated"
    /\ MissingFields(config0) = {"base_url"}
    /\ validation.kind = "raise"
    /\ Names(validation.message, "base_url")
    /\ ~Names(validation.message, "openai_api_key")

\* C10: for a configuration with all four required fields present and
\* non-empty, validate returns without raising and every field of the
\* configuration is as it was.
C10_ValidConfigPassesUnchanged ==
    (cfgPc = "validated" /\ MissingFields(config0) = {})
        => /\ validation = ValidationPassed
           /\ config = config0

C10_Witness ==
    /\ cfgPc = "validated"
    /\ MissingFields(config0) = {}
    /\ config0.chromium_path = ""
    /\ validation.kind = "return"

----------------------------------------------------------------------------
(* Properties of LoginTask, checked under SpecTask *)

\* C14: whatever the url, the username and the password, the instructions
\* contain each of the three verbatim, and both success markers,
\* "Logged In Successfully" and "Log out".
C14_InstructionsContainFields ==
    \A i \in DOMAIN rendered :
        /\ Contains(rendered[i], task0.url)
        /\ Contains(rendered[i], task0.credentials.username)
        /\ Contains(rendered[i], task0.credentials.password)
        /\ Contains(rendered[i], <<"Logged In Successfully">>)
        /\ Contains(rendered[i], <<"Log out">>)

C14_Witness ==
    /\ rendered # <<>>
    /\ task0.url = <<"a", "\"">>
    /\ task0.credentials.username = <<"\"">>
    /\ task0.credentials.password = <<"\"", "a">>
    /\ Contains(rendered[1], <<"\" - Verify the text was entered correctly",
          "4. Enter password: - Locate the password input field (attribute: name=\"password\")",
          " - Enter the password: \"", "\"", "a">>)

\* C15: every call of get_instructions on a task returns the same string,
\* neither get_instructions nor name changes the url or the credentials of
\* the task, and name is "login".
C15_RenderIdempotentAndPure ==
    /\ \A i, j \in DOMAIN rendered : rendered[i] = rendered[j]
    /\ task = task0
    /\ \A i \in DOMAIN names : names[i] = "login"

C15_Witness ==
    /\ Len(rendered) >= 2
    /\ Len(names) >= 2
    /\ task0.credentials.password = <<"a", "\"">>
    /\ rendered[1] = rendered[2]

----------------------------------------------------------------------------
(* Properties of the factories, checked under SpecFactory *)

\* C16: create_browser gives the browser configuration config.headless as
\* it is, and assigns the binary path if and only if config.chromium_path is
\* non-empty; with an empty path the binary path keeps the engine's default
\* and is never the empty string.
C16_BinaryPathOnlyWhenGiven ==
    browser.built =>
        /\ browser.headless = config.headless
        /\ browser.path_assigned <=> (config.chromium_path # "")
        /\ config.chromium_path # "" =>
              browser.browser_binary_path = [present |-> TRUE, value |-> config.chromium_path]
        /\ config.chromium_path = "" =>
              browser.browser_binary_path = [present |-> FALSE, value |-> ""]
        /\ browser.browser_binary_path # [present |-> TRUE, value |-> ""]

C16_Witness ==
    /\ browser.built
    /\ config.chromium_path = ""
    /\ config.headless /\ browser.headless
    /\ ~browser.path_assigned

\* C17: create_agent builds the agent from the task's rendered
\* instructions, an LLM client with config.model and config.openai_api_key,
\* and the browser session it was given, with the caller's
\* max_actions_per_step, or 5 when none was given.
C17_AgentBuiltFromArguments ==
    agent.built =>
        /\ agent.task = Render(task0)
        /\ agent.llm.model = config.model
        /\ agent.llm.api_key = config.openai_api_key
        /\ agent.browser_context = agentArgs.browser_context
        /\ agent.browser_context.id \in DOMAIN contexts
        /\ agent.max_actions_per_step =
              (IF agentArgs.max_actions_per_step.supplied
               THEN agentArgs.max_actions_per_step.value ELSE 5)

C17_Witness ==
    /\ agent.built
    /\ Len(contexts) = 2
    /\ agentArgs.browser_context.id = 2
    /\ agent.browser_context.id = 2
    /\ agentArgs.max_actions_per_step = Supplied(0)
    /\ agent.max_actions_per_step = 0
    /\ config.model = "gpt-4o"

----------------------------------------------------------------------------
(* Properties of ConfigLoader.from_env, checked under SpecLoader *)

SecretNames == {"OPENAI_API_KEY", "AUTH_USERNAME", "AUTH_PASSWORD"}

SecretFieldOf(c, name) ==
    CASE name = "OPENAI_API_KEY" -> c.openai_api_key
      [] name = "AUTH_USERNAME" -> c.auth_username
      [] name = "AUTH_PASSWORD" -> c.auth_password

PlainFieldsFromEnv ==
    /\ config.headless = FALSE
    /\ config.model = "gpt-4o-mini"
    /\ config.chromium_path =
          (IF env.CHROMIUM_PATH.present THEN env.CHROMIUM_PATH.value
           ELSE "/Applications/Chromium.app/Contents/MacOS/Chromium")
    /\ config.base_url = (IF env.BASE_URL.present THEN env.BASE_URL.value ELSE "")

\* C18 as first stated: each of api key, username and password is None when
\* its variable is unset and a secret wrapping the exact value otherwise.
C18_SecretWrappedWheneverSet ==
    cfgPc # "unloaded" =>
        /\ PlainFieldsFromEnv
        /\ \A n \in SecretNames :
              SecretFieldOf(config, n) =
                  (IF env[n].present THEN [present |-> TRUE, value |-> env[n].value]
                   ELSE [present |-> FALSE, value |-> ""])

\* C18: from_env returns a configuration with headless False and model
\* "gpt-4o-mini"; chromium_path is the fixed default path when CHROMIUM_PATH
\* is unset; base_url is "" when BASE_URL is unset; each of api key, username
\* and password is None when its variable is unset or set to the empty
\* string, and a secret wrapping the exact value otherwise.
C18_FromEnvDefaults ==
    cfgPc # "unloaded" =>
        /\ PlainFieldsFromEnv
        /\ \A n \in SecretNames :
              SecretFieldOf(config, n) =
                  (IF env[n].present /\ env[n].value # ""
                   THEN [present |-> TRUE, value |-> env[n].value]
                   ELSE [present |-> FALSE, value |-> ""])

C18_Witness ==
    /\ cfgPc = "built"
    /\ env.OPENAI_API_KEY = Some("")
    /\ config.openai_api_key = None
    /\ env.AUTH_USERNAME = Some("alice")
    /\ config.auth_username = Some("alice")
    /\ ~env.AUTH_PASSWORD.present
    /\ ~env.CHROMIUM_PATH.present
    /\ ~env.BASE_URL.present

\* A required variable of the environment is set to a non-empty value.
SetNonEmpty(name) == env[name].present /\ env[name].value # ""

\* C26: validate applied to what from_env returns succeeds if and only if
\* OPENAI_API_KEY, BASE_URL, AUTH_USERNAME and AUTH_PASSWORD are all set to
\* non-empty values; a variable set to the empty string is reported as
\* missing exactly as an unset one is.
C26_LoadedConfigValidIffAllSet ==
    cfgPc = "validated" =>
        /\ validation = ValidationPassed <=>
              \A f \in RequiredFields : SetNonEmpty(EnvNameOf(f))
        /\ validation.kind = "raise" =>
              /\ validation.cls = "ValueError"
              /\ \A f \in RequiredFields :
                    Names(validation.message, f) <=> ~SetNonEmpty(EnvNameOf(f))

C26_Witness ==
    /\ cfgPc = "validated"
    /\ env.AUTH_PASSWORD = Some("")
    /\ ~env.BASE_URL.present
    /\ SetNonEmpty("OPENAI_API_KEY") /\ SetNonEmpty("AUTH_USERNAME")
    /\ validation.kind = "raise"
    /\ Names(validation.message, "auth_password")
    /\ Names(validation.message, "base_url")
    /\ ~Names(validation.message, "auth_username")

\* C29: for every environment, validate_config of task.py on the
\* module-level configuration and ConfigValidator.validate on what from_env
\* returns both succeed, or both fail with the same message, naming the same
\* missing fields.
C29_LegacyAndLoaderAgree ==
    cfgPc = "validated" => validation = LegacyValidateOutcome(LegacyConfig(env))

C29_Witness ==
    /\ cfgPc = "validated"
    /\ env.OPENAI_API_KEY = Some("")
    /\ config.openai_api_key = None
    /\ LegacyConfig(env).openai_api_key = Some("")
    /\ validation.kind = "raise"
    /\ validation = LegacyValidateOutcome(LegacyConfig(env))
    /\ Names(validation.message, "openai_api_key")

----------------------------------------------------------------------------
(* Properties of from_env followed by create_browser, checked under
   SpecLoadedBrowser *)

\* C28: the default browser path applies only when CHROMIUM_PATH is unset:
\* with CHROMIUM_PATH set to the empty string from_env gives an empty
\* chromium_path and create_browser assigns no binary path; with
\* CHROMIUM_PATH unset the fixed default path is the one assigned.
C28_DefaultPathOnlyWhenUnset ==
    /\ (cfgPc = "built" /\ env.CHROMIUM_PATH.present /\ env.CHROMIUM_PATH.value = "") =>
          /\ config.chromium_path = ""
          /\ browser.built =>
                /\ ~browser.path_assigned
                /\ browser.browser_binary_path = [present |-> FALSE, value |-> ""]
    /\ (cfgPc = "built" /\ ~env.CHROMIUM_PATH.present) =>
          /\ config.chromium_path = "/Applications/Chromium.app/Contents/MacOS/Chromium"
          /\ browser.built =>
                /\ browser.path_assigned
                /\ browser.browser_binary_path =
                      [present |-> TRUE,
                       value |-> "/Applications/Chromium.app/Contents/MacOS/Chromium"]

C28_Witness ==
    /\ browser.built
    /\ env.CHROMIUM_PATH = Some("")
    /\ config.chromium_path = ""
    /\ ~browser.path_assigned

====
